---- MODULE Spec2Model ----
(***************************************************************************)
(* The IEP interpreter kernel (src/iep/iepkernel/interpreter.py): the REPL *)
(* tick process_commands, the line buffer, block execution, the rewriting  *)
(* of tracebacks and the shutdown path of run().                           *)
(*                                                                         *)
(* Text is a sequence of one-character strings.  A source is a sequence of *)
(* lines; a line is a token that stands for what the Python compiler and   *)
(* the executed code do with it (see Parse, CompileResult and Effect).     *)
(* The kernel is modelled without an extension shell (_ipython is None,    *)
(* the ImportError path of _prepare).                                      *)
(***************************************************************************)
EXTENDS Integers, Sequences, FiniteSets, TLC

\* ------------------------------------------------------------------ bounds
\* longest line buffer the front-end lets build up
MaxBuf == 3
\* messages one inbound channel holds at a time
MaxQueue == 1
\* longest file name (in characters) of the origin-tag specification
MaxName == 3
\* largest line offset of a submitted slice in the origin-tag specification
MaxOffset == 11
\* largest line of a slice the origin-tag specification decodes a tag for
MaxLine == 2
\* blocks (and startup scripts) compiled in one session
MaxBlocks == 2
\* messages are sent while the execution counter is at most this
MaxCount == 2
\* physical lines of a source with encoding cookies
MaxRows == 3
\* numbered messages waiting on a channel, and sent on it in all
MaxPending == 2
MaxSent == 3

\* ------------------------------------------------------------------ text
Digits == <<"0", "1", "2", "3", "4", "5", "6", "7", "8", "9">>

DigitChars == {Digits[i] : i \in 1..10}

DigitVal(c) == (CHOOSE i \in 1..10 : Digits[i] = c) - 1

\* "%i" % n for n >= 0
RECURSIVE FormatInt(_)
FormatInt(n) ==
    IF n < 10 THEN <<Digits[n + 1]>>
    ELSE FormatInt(n \div 10) \o <<Digits[(n % 10) + 1]>>

\* the value of a string of digits
RECURSIVE DigitsVal(_)
DigitsVal(s) ==
    IF s = <<>> THEN 0
    ELSE 10 * DigitsVal(SubSeq(s, 1, Len(s) - 1)) + DigitVal(s[Len(s)])

\* int(s): an optional sign and then digits; anything else raises ValueError
\* (the alphabet of the model holds neither blanks nor underscores).
\* ok = FALSE stands for the ValueError.
ParseInt(s) ==
    LET signed == s # <<>> /\ s[1] \in {"+", "-"}
        body   == IF signed THEN Tail(s) ELSE s
    IN  IF body # <<>> /\ \A i \in 1..Len(body) : body[i] \in DigitChars
        THEN [ok |-> TRUE,
              val |-> IF signed /\ s[1] = "-" THEN 0 - DigitsVal(body)
                      ELSE DigitsVal(body)]
        ELSE [ok |-> FALSE, val |-> 0]

\* str.find(c): the 0-based index of the first c in s, -1 when there is none
Find(s, c) ==
    IF \E i \in 1..Len(s) : s[i] = c
    THEN (CHOOSE i \in 1..Len(s) : s[i] = c /\ \A j \in 1..(i - 1) : s[j] # c) - 1
    ELSE 0 - 1

\* ------------------------------------------------------------ origin tags
\* runlargecode: fname = "%s+%i" % (fname, lineno) when lineno is non-zero
OriginTag(fname, lineno) ==
    IF lineno # 0 THEN fname \o <<"+">> \o FormatInt(lineno) ELSE fname

\* a reader that cuts the offset off the name and does not add it to the line
correctfilenameandlineno_nameonly(fname, lineno) ==
    LET j == Find(fname, "+")
    IN  IF j > 0 /\ ParseInt(SubSeq(fname, j + 2, Len(fname))).ok
        THEN [fname |-> SubSeq(fname, 1, j), lineno |-> lineno]
        ELSE [fname |-> fname, lineno |-> lineno]

\* correctfilenameandlineno: j = fname.find('+'); when j > 0 the text after
\* the '+' is added to lineno and cut off fname, unless int() raises
correctfilenameandlineno(fname, lineno) ==
    LET j == Find(fname, "+")
        n == ParseInt(SubSeq(fname, j + 2, Len(fname)))
    IN  IF j > 0 /\ n.ok
        THEN [fname |-> SubSeq(fname, 1, j), lineno |-> lineno + n.val]
        ELSE [fname |-> fname, lineno |-> lineno]

\* ---------------------------------------------------------------- sources
\* A line of source stands for what the compiler and the running code do
\* with it.
Headers == {"def f():", "if x:"}

Bodies == {"    return 42", "    g()"}

BadLines == {"x=)"}

\* what executing one line does: nothing more ("ok"), an exception ("exc"),
\* SystemExit(7) ("exit"), a stop at a breakpoint when the debugger traces
\* ("bp"), the definition of h ("def") or a call of h ("call"); a
\* KeyboardInterrupt ("kbd"), bdb.BdbQuit ("bdbquit") or another exception
\* that is no Exception ("base")
Effect(line) ==
    CASE line = "1/0" -> "exc"
      [] line = "b=1/0" -> "exc"
      [] line = "raise SystemExit(7)" -> "exit"
      [] line = "raise KeyboardInterrupt" -> "kbd"
      [] line = "raise bdb.BdbQuit" -> "bdbquit"
      [] line = "raise GeneratorExit" -> "base"
      [] line = "g()" -> "bp"
      [] line = "    g()" -> "bp"
      [] line = "def h(): 1/0" -> "def"
      [] line = "h()" -> "call"
      [] OTHER -> "ok"

\* The parser's place after reading lines[1..n]: "top" (between statements),
\* "needbody" (after a header), "inbody" (in an indented suite), "bad".
\* In "single" mode a suite is ended by a blank line only, and one statement
\* is all a unit may hold.
RECURSIVE Parse(_, _, _)
Parse(lines, n, mode) ==
    IF n = 0 THEN "top"
    ELSE LET before == Parse(lines, n - 1, mode)
             l      == lines[n]
         IN  CASE before = "bad" -> "bad"
               [] l \in BadLines -> "bad"
               [] before = "top" /\ mode = "single" /\ n > 1 /\ l # "" -> "bad"
               [] before = "top" ->
                    IF l \in Headers THEN "needbody"
                    ELSE IF l \in Bodies THEN "bad" ELSE "top"
               [] before = "needbody" ->
                    IF l \in Bodies THEN "inbody"
                    ELSE IF l = "" /\ mode = "exec" THEN "needbody" ELSE "bad"
               [] OTHER -> \* inbody
                    IF l \in Bodies THEN "inbody"
                    ELSE IF l = "" THEN (IF mode = "single" THEN "top" ELSE "inbody")
                    ELSE IF mode = "single" THEN "bad"
                    ELSE IF l \in Headers THEN "needbody" ELSE "top"

\* CommandCompiler: a code object ("complete"), None ("incomplete") or a
\* SyntaxError ("invalid")
CompileResult(lines, mode) ==
    LET p == Parse(lines, Len(lines), mode)
    IN  IF p = "bad" THEN "invalid"
        ELSE IF p = "needbody" \/ (p = "inbody" /\ mode = "single") THEN "incomplete"
        ELSE "complete"

\* the line the SyntaxError of an invalid source names
ErrorLine(lines, mode) ==
    CHOOSE n \in 1..Len(lines) :
        Parse(lines, n, mode) = "bad" /\ Parse(lines, n - 1, mode) # "bad"

\* ------------------------------------------------------- encoding cookies
\* A physical line with a cookie is a sequence of pieces of text: a blank, a
\* '#', the text 'coding:' or 'coding=' (or 'coding is', their rewriting),
\* or other text; a source is the sequence of the lines between its '\n'.
CookieLines ==
    {<<>>, <<"x">>, <<"#", "coding:">>, <<"#", "coding=">>, <<" ", "#", "coding:">>,
     <<"x", "coding:">>}

CookieSources == UNION {[1..n -> CookieLines] : n \in 1..MaxRows}

\* 'coding' in tmp
HasCoding(tmp) ==
    \E j \in 1..Len(tmp) : tmp[j] \in {"coding:", "coding=", "coding is"}

\* tmp.replace('coding=', ci).replace('coding:', ci), with ci = 'coding is'
ReplaceCoding(tmp) ==
    [j \in 1..Len(tmp) |-> IF tmp[j] \in {"coding=", "coding:"} THEN "coding is" ELSE tmp[j]]

\* the part of compilecode that mangles coding definitions: the source is
\* split in at most three parts (two lines and the rest) and every part but
\* the last is rewritten when it starts with '#' and holds 'coding'
manglecoding(source) ==
    LET nparts == IF Len(source) < 3 THEN Len(source) ELSE 3
    IN  [i \in 1..Len(source) |->
            IF i <= nparts - 1 /\ source[i] # <<>> /\ source[i][1] = "#"
                /\ HasCoding(source[i])
            THEN ReplaceCoding(source[i]) ELSE source[i]]

\* ------------------------------------------------------------ file names
ConsoleName == <<"<">>

KernelFile == <<"k">>

ScriptName == <<"s">>

\* the editor file of the blocks
ExPy == <<"e", "x", ".", "p", "y">>

\* -------------------------------------------------------- source registry
\* A code object is [id, def, co_filename, lines]: id numbers the compiled
\* blocks (0 is the code of an interactive line), def is 0 for the code of
\* the unit itself and the line of the def for the code of a function.

\* ExecutedSourceCollection._getId: computes id_ and returns nothing (None)
getId(codeObject) == "None"

\* a registry that stores nothing
storeSource_skipped(coll, codeObject, source) == coll

\* ExecutedSourceCollection.storeSource: self[self._getId(codeObject)] = source
storeSource(coll, codeObject, source) ==
    [key \in DOMAIN coll \cup {getId(codeObject)} |->
        IF key = getId(codeObject) THEN source ELSE coll[key]]

\* ExecutedSourceCollection.getSource: self.get(self._getId(codeObject), '')
getSource(coll, codeObject) ==
    IF getId(codeObject) \in DOMAIN coll THEN coll[getId(codeObject)] ELSE <<>>

\* -------------------------------------------------------------- execution
\* what linecache shows for a frame: the file on disk as it is now for a plain
\* file name, nothing for a tag that names no file
LineCache(filename) ==
    IF \E i \in 1..Len(filename) : filename[i] \in {"+", "<"} THEN "" ELSE "<disk>"

\* a traceback entry with its frame: the file name and the line, the frame's
\* code object and the text traceback.extract_tb finds for the line
Frame(code, lineno) ==
    [filename |-> code.co_filename, lineno |-> lineno,
     code |-> [id |-> code.id, def |-> code.def, co_filename |-> code.co_filename],
     text |-> LineCache(code.co_filename)]

\* the frame of execcode itself, the first of every traceback
KernelFrame ==
    [filename |-> KernelFile, lineno |-> 752,
     code |-> [id |-> 0, def |-> 0, co_filename |-> KernelFile],
     text |-> "exec(code, self.locals)"]

NoFunction ==
    [defined |-> FALSE, line |-> 0, code |-> [id |-> 0, def |-> 0, co_filename |-> <<>>]]

\* line i is in the suite of a def, which runs nothing when the def is executed
InDef(lines, i) ==
    /\ lines[i] \in Bodies
    /\ \E j \in 1..(i - 1) :
        /\ lines[j] = "def f():"
        /\ \A m \in (j + 1)..(i - 1) : lines[m] \notin Headers

\* the place a line calls into, where a breakpoint can sit
BreakOf(line) == IF line \in {"g()", "    g()"} THEN "g" ELSE "h"

\* exec(code, ...) from line i on, with the user namespace ns (the function h,
\* when defined).  Returns what ended the run: "ok", "exc" (with the
\* traceback tb), "exit" (SystemExit(7)) or "bp" (a breakpoint at line).
\* tracing: the breakpoints the debugger traces in this run (none when it
\* was not turned on).
RECURSIVE RunLines(_, _, _, _)
RunLines(code, i, ns, tracing) ==
    IF i > Len(code.lines) THEN [eff |-> "ok", ns |-> ns, line |-> i, tb |-> <<>>]
    ELSE LET e == IF InDef(code.lines, i) THEN "ok" ELSE Effect(code.lines[i])
         IN  CASE e \in {"exc", "kbd", "bdbquit", "base", "exit"} ->
                    [eff |-> e, ns |-> ns, line |-> i,
                     tb |-> <<KernelFrame, Frame(code, i)>>]
               [] e = "call" ->
                    [eff |-> "exc", ns |-> ns, line |-> i,
                     tb |-> IF ns.defined
                            THEN <<KernelFrame, Frame(code, i), Frame(ns.code, ns.line)>>
                            ELSE <<KernelFrame, Frame(code, i)>>]
               [] e = "bp" /\ BreakOf(code.lines[i]) \in tracing ->
                    [eff |-> "bp", ns |-> ns, line |-> i, tb |-> <<>>]
               [] e = "def" ->
                    RunLines(code, i + 1,
                             [defined |-> TRUE, line |-> i,
                              code |-> [id |-> code.id, def |-> i,
                                        co_filename |-> code.co_filename]],
                             tracing)
               [] OTHER -> RunLines(code, i + 1, ns, tracing)

\* ------------------------------------------------------ traceback rewriting
NoReport == [tb |-> <<>>, list |-> <<>>]

\* sys.last_type = sys.last_value = sys.last_traceback = None
NoLast == [type |-> "None", value |-> "None", traceback |-> <<>>]

\* showtraceback, for the traceback tb0 of sys.exc_info(): tb, the traceback
\* it works on (sys.last_traceback), and list, the rewritten tblist of
\* (filename, lineno, text) that is formatted and written
showtraceback(coll, tb0) ==
    LET tb     == Tail(tb0)            \* tb = tb.tb_next
        tblist == tb                   \* traceback.extract_tb(tb)
        frames == Tail(tb)             \* the frames of tb; frames.pop(0)
        entry(i) ==
            LET tbInfo == tblist[i]
                c      == correctfilenameandlineno(tbInfo.filename, tbInfo.lineno)
                source == IF i <= Len(frames)
                          THEN getSource(coll, frames[i].code) ELSE <<>>
                example == IF source # <<>> /\ tbInfo.lineno <= Len(source)
                           THEN source[tbInfo.lineno] ELSE tbInfo.text
            IN  [fname |-> c.fname, lineno |-> c.lineno, text |-> example]
    IN  [tb |-> tb, list |-> [i \in 1..Len(tblist) |-> entry(i)]]

\* ------------------------------------------------------------------ state
VARIABLES
    buffer,          \* self._buffer: the lines of an incomplete statement
    more,            \* self.more
    newPrompt,       \* self.newPrompt
    script,          \* self._scriptToRunOnStartup: the script's lines, <<>> for None
    dbFrames,        \* self._dbFrames is non-empty (debug mode)
    exitException,   \* self._exitException
    locals,          \* the user namespace: the function h, when defined
    coll,            \* self._codeCollection
    nextId,          \* code objects of blocks compiled so far
    interacting,     \* the debugger's interaction loop is to go on
    cont,            \* the tick suspended under the debugger's interaction loop
    quitRaises,      \* guiApp.quit() raises SystemExit (the default sys.exit())
    quitCalled,      \* guiApp.quit() was called and returned
    runState,        \* run(): "running" or "raised"
    raised,          \* the exception run() raised
    connected,       \* stdin is open and the context has a peer
    ctrl_command,    \* messages waiting on ctrl_command (their number: what a
                     \* message holds is seen when it is received)
    ctrl_code,       \* messages waiting on ctrl_code
    strm_prompt,     \* the last prompt sent on strm_prompt
    stat,            \* the last status sent on stat_interpreter
    lastTb,          \* the last error report written: its (fname, lineno, text)
                     \* entries, and the traceback it was made from
    blocks,          \* history: the messages whose source was stored, by code id
    lastCompile,     \* history: result and caller of the most recent compile,
                     \* and the result of the most recent compile by pushline
    promptAfter,     \* history: lastCompile and _exitException when the last
                     \* prompt was sent
    execSinceStatus, \* history: units executed since the last status emission
    execStat,        \* history: the status in force when the last unit started
    firstExit,       \* history: the first value stored in _exitException
    tag,             \* origin-tag specification: its input and the decoded pair
    stat_breakpoints,\* the state of the stat_breakpoints channel: null (None)
                     \* or the set of breakpoints the front-end published
    breaks,          \* self.debugger.breaks: the breakpoints installed
    sys_last,        \* sys.last_type, sys.last_value, sys.last_traceback
    ipython,         \* self._ipython is an extension shell (not None)
    execution_count, \* self._ipython.execution_count
    sent,            \* history: messages sent so far on each inbound channel
    hist,            \* history: what the last execution, pushline, block and
                     \* tick did (see NoHist)
    python,          \* PYTHON_VERSION: the major version the kernel runs under
    guiName,         \* self.guiName: the GUI toolkit integrated ('' for none)
    beat,            \* history: flips when guiApp.run's call of process_commands
                     \* was not cut short by a KeyboardInterrupt (kept by the
                     \* liveness specification only)
    coding           \* encoding-cookie specification: a source and what
                     \* compilecode hands to the compiler

kernelVars ==
    <<buffer, more, newPrompt, script, dbFrames, exitException, locals, coll,
      nextId, interacting, cont, quitRaises, quitCalled, runState, raised,
      connected, ctrl_command, ctrl_code, strm_prompt, stat, lastTb, blocks,
      lastCompile, promptAfter, execSinceStatus, execStat, firstExit,
      stat_breakpoints, breaks, sys_last, ipython, execution_count, sent, hist,
      python, guiName, beat>>

\* the variables added to the kernel's first ones
extVars ==
    <<stat_breakpoints, breaks, sys_last, ipython, execution_count, sent, hist, python,
      guiName, beat>>

vars == <<buffer, more, newPrompt, script, dbFrames, exitException, locals, coll,
          nextId, interacting, cont, quitRaises, quitCalled, runState, raised,
          connected, ctrl_command, ctrl_code, strm_prompt, stat, lastTb,
          blocks, lastCompile, promptAfter, execSinceStatus, execStat, firstExit, tag,
          stat_breakpoints, breaks, sys_last, ipython, execution_count, sent, hist,
          python, guiName, beat, coding>>

NoCode == [id |-> 0, def |-> 0, co_filename |-> <<>>, lines |-> <<>>]

\* What one tick meets: ch, the channel select_sub_channel returns ("none"
\* when no message waits); intr, a KeyboardInterrupt in the kernel's own code
\* ("start": as the tick begins; "idle": between lines, after the status was
\* sent; "busy": right after a message was taken); line or msg, what the
\* message received holds.
Input(ch, intr, line, msg) == [ch |-> ch, intr |-> intr, line |-> line, msg |-> msg]

\* a message of ctrl_code: msg['source'] (its lines), msg['fname'], msg['lineno']
Block(source, fname, lineno) == [source |-> source, fname |-> fname, lineno |-> lineno]

NoMsg == Block(<<>>, <<>>, 0)

NoInput == Input("none", "none", <<>>, NoMsg)

\* the history kept of a tick: execBreaks, the breakpoints installed and the
\* state of the breakpoint channel when the last unit started executing, and
\* the path it ran on
\* order: the number (in the order of sending) of the last message of each
\* channel whose handling started, whether every message was started after
\* the messages sent before it on its channel, and whether the last one was
\* started by a tick of the debugger's interaction loop
\* tick: the last tick: whether the connection was closed, whether the tick
\* came to check it, the messages that waited, the exit process_commands
\* stored and whether it called guiApp.quit; the exit that was stored when
\* the tick began (exitBefore), the channel it received from (taken) and the
\* one whose non-empty message it handled (event), whether it started a unit
\* (executed), whether it sent a prompt (prompted); the status it computed
\* from dbg (the frame stack is non-empty) and more, the status that was in
\* force when it began (statBefore) and the values that went out on
\* stat_interpreter since (emits); what escaped from _process_commands and
\* what the handler wrote; whether process_commands has returned (and the
\* unit it left suspended, if any, has not gone on since)
\* cmd: the last command (none when a block came after it): the line
\* received, what was echoed, the status in force when the Magician was
\* called, what the Magician was given and whether
\* it consumed it (or the text it returned), the segments pushed and the
\* result of the last one, the units executed, the buffer the command found
\* (pending), whether its path has returned (done), with self.more and the
\* buffer as they were then (more, after), and whether it ran without a stop
\* in the debugger (whole)
\* start: the startup script: the ticks that took it, whether Busy was in
\* force then, whether a prompt had been sent or a message received before,
\* and whether a first tick has ended and a message was received (so far)
\* block: the last block: the result of its compile, the buffer it found
\* (pending), whether its source is in the registry, whether execcode was
\* called for it, whether an error was reported, and whether the block path
\* has returned (done)
\* push: the last call of pushline: the buffer before it, its line, the
\* source it compiled and the result, and, when it has returned (done), the
\* buffer after it
\* sub: the last submission: who compiled it, the result, whether the kernel
\* was in debug mode, and the execution counter before it
\* report: the last error report, who wrote it, whether the kernel was in
\* debug mode, and sys.last_* before and after it
\* exec: how the last execcode ended: what the unit raised (eff), whether the
\* stop handler ran, whether showtraceback ran, what execcode raised, and
\* sys.last_* before and after
NoHist ==
    [execBreaks |-> [path |-> "none", debug |-> FALSE, before |-> {}, breaks |-> {},
                     chan |-> [null |-> TRUE, set |-> {}]],
     report |-> [by |-> "none", debug |-> FALSE, before |-> NoLast, after |-> NoLast],
     exec |-> [eff |-> "none", stopped |-> FALSE, shown |-> FALSE, raised |-> "none",
               before |-> NoLast, after |-> NoLast],
     sub |-> [by |-> "none", res |-> "none", debug |-> FALSE, before |-> 0],
     push |-> [done |-> FALSE, before |-> <<>>, line |-> "", source |-> <<>>,
               res |-> "none", after |-> <<>>],
     block |-> [done |-> FALSE, res |-> "none", pending |-> <<>>, stored |-> FALSE,
                executed |-> FALSE, reported |-> FALSE],
     tick |-> [closed |-> FALSE, checked |-> FALSE, command |-> 0, code |-> 0,
               stored |-> "none", quit |-> FALSE, exitBefore |-> "None",
               taken |-> "none", event |-> "none", executed |-> FALSE,
               prompted |-> FALSE, status |-> "", dbg |-> FALSE, more |-> FALSE,
               statBefore |-> "", emits |-> <<>>,
               escaped |-> "none", written |-> "", returned |-> FALSE],
     cmd |-> [line |-> <<>>, echo |-> <<>>, stat |-> "", given |-> <<>>,
              consumed |-> FALSE, text |-> <<>>, pushed |-> <<>>, last |-> "none",
              execs |-> 0, pending |-> <<>>, done |-> FALSE, more |-> FALSE,
              after |-> <<>>, whole |-> TRUE],
     start |-> [runs |-> 0, busy |-> FALSE, prompted |-> FALSE, received |-> FALSE,
                ticked |-> FALSE, taken |-> FALSE],
     order |-> [command |-> 0, code |-> 0, inorder |-> TRUE, nested |-> FALSE]]

NoCont ==
    [site |-> "none", rest |-> <<>>, inp |-> NoInput, code |-> NoCode, line |-> 0]

\* the kernel's state as one record; exc is the exception in flight, susp says
\* that the tick has just entered the debugger's interaction loop
K ==
    [buffer |-> buffer, more |-> more, newPrompt |-> newPrompt, script |-> script,
     dbFrames |-> dbFrames, exitException |-> exitException, locals |-> locals,
     coll |-> coll, nextId |-> nextId, interacting |-> interacting, cont |-> cont,
     quitRaises |-> quitRaises, quitCalled |-> quitCalled, runState |-> runState,
     raised |-> raised, connected |-> connected, ctrl_command |-> ctrl_command,
     ctrl_code |-> ctrl_code, strm_prompt |-> strm_prompt, stat |-> stat,
     lastTb |-> lastTb, blocks |-> blocks, lastCompile |-> lastCompile, promptAfter |-> promptAfter,
     execSinceStatus |-> execSinceStatus, execStat |-> execStat,
     firstExit |-> firstExit, stat_breakpoints |-> stat_breakpoints,
     breaks |-> breaks, sys_last |-> sys_last, ipython |-> ipython,
     execution_count |-> execution_count, sent |-> sent, hist |-> hist,
     python |-> python, guiName |-> guiName,
     exc |-> "none", susp |-> FALSE]

Become(k) ==
    /\ buffer' = k.buffer /\ more' = k.more /\ newPrompt' = k.newPrompt
    /\ script' = k.script /\ dbFrames' = k.dbFrames
    /\ exitException' = k.exitException /\ locals' = k.locals /\ coll' = k.coll
    /\ nextId' = k.nextId /\ interacting' = k.interacting /\ cont' = k.cont
    /\ quitRaises' = k.quitRaises /\ quitCalled' = k.quitCalled
    /\ runState' = k.runState /\ raised' = k.raised /\ connected' = k.connected
    /\ ctrl_command' = k.ctrl_command /\ ctrl_code' = k.ctrl_code
    /\ strm_prompt' = k.strm_prompt /\ stat' = k.stat /\ lastTb' = k.lastTb
    /\ lastCompile' = k.lastCompile /\ promptAfter' = k.promptAfter
    /\ execSinceStatus' = k.execSinceStatus /\ execStat' = k.execStat
    /\ firstExit' = k.firstExit /\ blocks' = k.blocks
    /\ stat_breakpoints' = k.stat_breakpoints /\ breaks' = k.breaks
    /\ sys_last' = k.sys_last /\ ipython' = k.ipython
    /\ execution_count' = k.execution_count /\ sent' = k.sent /\ hist' = k.hist
    /\ python' = k.python /\ guiName' = k.guiName

\* ------------------------------------------------------------ the kernel
\* compilecode: self._compile(source, filename, mode)
compilecode(source, mode) == CompileResult(source, mode)

\* context._stat_interpreter.send: the value goes out when it differs from
\* the last one sent
SendStatus(k, v) ==
    IF k.stat = v THEN k
    ELSE [k EXCEPT !.stat = v, !.execSinceStatus = 0,
                   !.hist.tick.emits = IF Len(@) < 4 THEN Append(@, v) ELSE @]

NoteCompile(k, res, by) ==
    [k EXCEPT !.lastCompile = [res |-> res, by |-> by,
                               push |-> IF by = "pushline" THEN res ELSE @.push]]

\* a submission is compiled by pushline or runlargecode; before is the
\* execution counter it found
NoteSub(k, by, res, before) ==
    [k EXCEPT !.hist.sub = [by |-> by, res |-> res, debug |-> k.dbFrames, before |-> before]]

\* pushline compiles source
NotePush(k, before, line, source, res) ==
    [k EXCEPT !.hist.push = [done |-> FALSE, before |-> before, line |-> line,
                             source |-> source, res |-> res, after |-> <<>>],
              !.hist.cmd.pushed = Append(@, line), !.hist.cmd.last = res]

\* pushline returns
NotePushEnd(k) == [k EXCEPT !.hist.push.after = k.buffer, !.hist.push.done = TRUE]

NoteExec(k) ==
    [k EXCEPT !.execSinceStatus = IF @ < 2 THEN @ + 1 ELSE @, !.execStat = k.stat,
              !.hist.tick.executed = TRUE,
              !.hist.cmd.execs = IF @ < 2 THEN @ + 1 ELSE @]

\* a _resetbuffer that clears nothing
resetbuffer_kept(k) == k

\* _resetbuffer
resetbuffer(k) == [k EXCEPT !.buffer = <<>>]

\* where an execcode call returns to: the loop over the segments of a command
\* ("push", rest are the segments left), the end of the block path ("block"),
\* the tick after the startup script ("file"; inp is what the tick meets) or
\* the Magician ("magic")
Ret(site, rest) == [site |-> site, rest |-> rest, inp |-> NoInput]

RetFile(inp) == [site |-> "file", rest |-> <<>>, inp |-> inp]

\* PS1.__str__ and PS2.__str__ (no extension shell)
PS1of(k) == IF k.dbFrames THEN "(f)>>> " ELSE ">>> "

PS2of(k) == IF k.dbFrames THEN "(f)... " ELSE "... "

\* a tick with the two prompts the wrong way round
PromptFor_swapped(k) == IF k.more THEN PS1of(k) ELSE PS2of(k)

\* ps = sys.ps2 if self.more else sys.ps1
PromptFor(k) == IF k.more THEN PS2of(k) ELSE PS1of(k)

\* Magician.convert_command on a command (its lines, split on '\n'): None for
\* a magic command that is consumed, the rewritten text otherwise; start and
\* stop tell what the debugger commands did to the interaction loop
convert_command(k, line) ==
    CASE line = <<"?">> ->
            [consumed |-> TRUE, text |-> <<>>, start |-> FALSE, stop |-> FALSE]
      [] line = <<"db start">> ->
            [consumed |-> FALSE, text |-> <<"">>, start |-> ~k.dbFrames, stop |-> FALSE]
      [] line = <<"db continue">> ->
            [consumed |-> FALSE, text |-> <<"">>, start |-> FALSE, stop |-> k.dbFrames]
      [] OTHER -> [consumed |-> FALSE, text |-> line, start |-> FALSE, stop |-> FALSE]

\* showsyntaxerror(filename): the report written for the SyntaxError of source
\* Unpacking the SyntaxError works under Python 2; under Python 3 it fails,
\* and the error is shown as the compiler raised it.
showsyntaxerror(k, filename, source, mode) ==
    LET lineno == ErrorLine(source, mode)
        c      == IF k.python < 3 THEN correctfilenameandlineno(filename, lineno)
                  ELSE [fname |-> filename, lineno |-> lineno]
        last   == IF k.python < 3 THEN [k.sys_last EXCEPT !.value = "SyntaxError"]
                  ELSE k.sys_last
    IN  [k EXCEPT !.lastTb =
            [tb |-> <<>>,
             list |-> <<[fname |-> c.fname, lineno |-> c.lineno, text |-> source[lineno]]>>],
                  !.sys_last = last,
                  !.hist.report = [by |-> "showsyntaxerror", debug |-> k.dbFrames,
                                   before |-> k.sys_last, after |-> last]]

\* yoton.select_sub_channel: the channels it may return, those with a message
\* waiting, or none
select_sub_channel(k) ==
    IF k.ctrl_command = 0 /\ k.ctrl_code = 0 THEN {"none"}
    ELSE {ch \in {"command", "code"} :
            IF ch = "command" THEN k.ctrl_command > 0 ELSE k.ctrl_code > 0}

\* context._stat_breakpoints.recv(): the state of the channel, None or a set
recv_breakpoints(k) == IF k.stat_breakpoints.null THEN {} ELSE k.stat_breakpoints.set

\* an apply_breakpoints that never clears
apply_breakpoints_noclear(k) == [k EXCEPT !.breaks = @ \cup recv_breakpoints(k)]

\* apply_breakpoints: clear_all_breaks when any is installed, then set_break
\* for each breakpoint received
apply_breakpoints(k) ==
    LET received == recv_breakpoints(k)
        cleared  == IF k.breaks # {} THEN {} ELSE k.breaks
    IN  [k EXCEPT !.breaks = cleared \cup received]

\* Debugger.set_on: tracing is enabled when there are breakpoints
set_on(k) == k.breaks

\* the unit starts executing on path ("normal", "debug" or "ipython"); debug
\* tells whether the frame stack is non-empty then, before are the
\* breakpoints that were installed when the path was entered
NoteStart(k, path, before) ==
    [k EXCEPT !.hist.execBreaks =
        [path |-> path, debug |-> k.dbFrames, before |-> before, breaks |-> k.breaks,
         chan |-> k.stat_breakpoints]]

\* the type of what the unit raised
ExcType(eff) ==
    CASE eff = "exc" -> "ZeroDivisionError"
      [] eff = "kbd" -> "KeyboardInterrupt"
      [] eff = "bdbquit" -> "BdbQuit"
      [] eff = "base" -> "GeneratorExit"
      [] OTHER -> "SystemExit(7)"

\* an execcode whose handlers format SystemExit as well
Route_exitshown(eff) ==
    CASE eff = "bdbquit" -> "dbstop_handler"
      [] eff \in {"exc", "kbd", "exit"} -> "showtraceback"
      [] OTHER -> "propagate"

\* the except clause of execcode that takes what the unit raised: bdb.BdbQuit,
\* Exception, KeyboardInterrupt, or none of them
Route(eff) ==
    CASE eff = "bdbquit" -> "dbstop_handler"
      [] eff \in {"exc", "kbd"} -> "showtraceback"
      [] OTHER -> "propagate"

\* the except clauses of execcode, for a unit that raised (r is what RunLines
\* returned): the stop handler prints a line; showtraceback writes the report
\* and stores the exception unless the kernel is in debug mode
execcode_except(k, r) ==
    LET route == Route(r.eff)
        last  == IF route = "showtraceback" /\ ~k.dbFrames
                 THEN [type |-> ExcType(r.eff), value |-> ExcType(r.eff),
                       traceback |-> showtraceback(k.coll, r.tb).tb]
                 ELSE k.sys_last
    IN  [k EXCEPT !.lastTb = IF route = "showtraceback"
                             THEN showtraceback(k.coll, r.tb) ELSE @,
                  !.sys_last = last,
                  !.exc = IF route = "propagate" THEN ExcType(r.eff) ELSE @,
                  !.hist.report = IF route = "showtraceback"
                                  THEN [by |-> "showtraceback", debug |-> k.dbFrames,
                                        before |-> k.sys_last, after |-> last]
                                  ELSE @,
                  !.hist.exec = [eff |-> r.eff, stopped |-> route = "dbstop_handler",
                                 shown |-> route = "showtraceback",
                                 raised |-> IF route = "propagate"
                                            THEN ExcType(r.eff) ELSE "none",
                                 before |-> k.sys_last, after |-> last]]

RECURSIVE RunFrom(_, _, _, _)
RECURSIVE AfterExec(_, _)
RECURSIVE Returns(_, _)
RECURSIVE run_cell(_, _, _, _)
RECURSIVE pushline(_, _, _)
RECURSIVE PushSegs(_, _)
RECURSIVE TickRest(_, _)

\* execcode, with the code run from line i on: the debugger is turned on
\* outside debug mode only; bdb.BdbQuit, Exception and KeyboardInterrupt are
\* caught, SystemExit is not
RunFrom(k, code, i, ret) ==
    LET r  == RunLines(code, i, k.locals, IF k.dbFrames THEN {} ELSE set_on(k))
        k1 == [k EXCEPT !.locals = r.ns]
    IN  Returns(CASE r.eff = "bp" ->
                        [k1 EXCEPT !.cont = [site |-> ret.site, rest |-> ret.rest,
                                             inp |-> NoInput, code |-> code,
                                             line |-> r.line],
                                   !.dbFrames = TRUE, !.interacting = TRUE, !.susp = TRUE]
                  [] ret.site = "cell" \/ r.eff = "ok" -> k1
                  [] OTHER -> execcode_except(k1, r),
                ret)

\* the call returns to its site unless it raised or is suspended in the
\* debugger's interaction loop
Returns(k, ret) == IF k.susp \/ k.exc # "none" THEN k ELSE AfterExec(k, ret)

\* an execcode that always executes in the user namespace
exec_target_user(k) == "normal"

\* what execcode executes the unit against: the globals and locals of the
\* selected frame ("debug") or the user namespace ("normal")
exec_target(k) == IF k.dbFrames THEN "debug" ELSE "normal"

execcode(k, code, ret) ==
    LET k1 == apply_breakpoints(NoteExec(k))
    IN  RunFrom([NoteStart(k1, exec_target(k), k.breaks)
                    EXCEPT !.hist.block.executed = IF ret.site = "block" THEN TRUE ELSE @],
                code, 1, ret)

\* ipython_pre_run_code_hook
ipython_pre_run_code_hook(k) == apply_breakpoints(k)

\* self._ipython.run_cell(source, True): the shell compiles the cell and
\* reports a syntax error itself; it calls the hook, runs the code, reports
\* what the code raises itself, and counts the cell
run_cell(k, res, code, ret) ==
    IF res = "invalid" THEN AfterExec(k, ret)
    ELSE RunFrom(NoteStart(ipython_pre_run_code_hook(NoteExec(k)), "ipython", k.breaks),
                 code, 1, ret)

\* what follows the return of execcode (or of run_cell, or of the Magician),
\* up to the end of _process_commands
AfterExec(k, ret) ==
    CASE ret.site \in {"push", "cell"} ->
            PushSegs([NotePushEnd(k) EXCEPT
                            !.more = FALSE,
                            !.execution_count = IF ret.site = "cell" THEN @ + 1 ELSE @],
                     ret.rest)
      [] ret.site = "magic" -> PushSegs(k, ret.rest)
      [] ret.site = "block" ->
            [resetbuffer(k) EXCEPT !.more = FALSE, !.hist.block.done = TRUE,
                                   !.hist.block.reported = k.lastTb # NoReport]
      [] OTHER -> TickRest(k, ret.inp)

\* a pushline that forgets the fragments it holds
joined_dropped(buf, line) == <<line>>

\* buffer.append(line); source = "\n".join(buffer): the lines of the source
joined(buf, line) == Append(buf, line)

\* self.more = self.pushline(line), and then the segments left of the command
pushline(k, line, rest) ==
    LET buf == joined(k.buffer, line)
        res == compilecode(buf, "single")
        k1  == NotePush(NoteSub(NoteCompile(resetbuffer(k), res, "pushline"),
                                "pushline", res, k.execution_count),
                        k.buffer, line, buf, res)
        use_ipython == k.ipython /\ ~k.dbFrames
        code == [id |-> 0, def |-> 0, co_filename |-> ConsoleName, lines |-> buf]
    IN  CASE res = "incomplete" \/ (res = "invalid" /\ ~use_ipython) ->
                PushSegs(NotePushEnd(
                            IF res = "incomplete"
                            THEN [k1 EXCEPT !.buffer = buf, !.more = TRUE]
                            ELSE [showsyntaxerror(k1, ConsoleName, buf, "single")
                                    EXCEPT !.more = FALSE]),
                         rest)
          [] use_ipython -> run_cell(k1, res, code, Ret("cell", rest))
          [] OTHER -> execcode(k1, code, Ret("push", rest))

\* for line3 in line2.split('\n'): self.more = self.pushline(line3)
PushSegs(k, segs) ==
    IF segs = <<>>
    THEN [k EXCEPT !.hist.cmd.done = TRUE, !.hist.cmd.more = k.more,
                   !.hist.cmd.after = k.buffer]
    ELSE pushline(k, Head(segs), Tail(segs))

\* a lineno that is no number (None), written as a number no line has
NoLineno == 0 - 1

\* runlargecode(msg), and then the end of the block path of the tick;
\* lineno + 1 raises TypeError for a lineno that is no number
runlargecode(k, msg) ==
    LET fname == OriginTag(msg.fname, msg.lineno)
        res   == compilecode(msg.source, "exec")
        k0    == IF k.ipython THEN [k EXCEPT !.execution_count = @ + 1] ELSE k
        k1    == [NoteSub(NoteCompile(k0, res, "runlargecode"),
                          "runlargecode", res, k.execution_count)
                    EXCEPT !.hist.block = [NoHist.block EXCEPT !.res = res,
                                                               !.pending = k.buffer]]
        code  == [id |-> k.nextId + 1, def |-> 0, co_filename |-> fname,
                  lines |-> msg.source]
    IN  CASE msg.lineno = NoLineno -> [k EXCEPT !.exc = "TypeError"]
          [] res # "complete" ->
                AfterExec(IF res = "invalid"
                          THEN showsyntaxerror(k1, fname, msg.source, "exec") ELSE k1,
                          Ret("block", <<>>))
          [] OTHER ->
                execcode([k1 EXCEPT !.coll = storeSource(@, code, msg.source),
                                    !.hist.block.stored =
                                        getSource(storeSource(k.coll, code, msg.source),
                                                  code) = msg.source,
                                    !.nextId = @ + 1, !.blocks = Append(@, msg)],
                         code, Ret("block", <<>>))

\* runfile(fname) for the startup script, and then the rest of the tick
runfile(k, source, inp) ==
    LET res  == compilecode(source, "exec")
        k1   == NoteCompile(k, res, "runfile")
        code == [id |-> k.nextId + 1, def |-> 0, co_filename |-> ScriptName,
                 lines |-> source]
    IN  CASE res # "complete" ->
                TickRest(IF res = "invalid"
                         THEN showsyntaxerror(k1, ScriptName, source, "exec") ELSE k1,
                         inp)
          [] OTHER ->
                execcode([k1 EXCEPT !.coll = storeSource(@, code, source),
                                    !.nextId = @ + 1,
                                    !.blocks = Append(@, Block(source, ScriptName, 0))],
                         code, RetFile(inp))

\* a tick that takes a message without telling the front-end
MarkBusy_silent(k) == [k EXCEPT !.newPrompt = TRUE]

\* _stat_interpreter.send('Busy'); self.newPrompt = True
MarkBusy(k) == [SendStatus(k, "Busy") EXCEPT !.newPrompt = TRUE]

\* a channel that hands out its newest message
recv_newest(k, ch) == k.sent[ch]

\* recv(False) on ctrl_command or ctrl_code: the number, in the order of
\* sending, of the message received, the oldest that waits (0 when the
\* messages of the channel are not numbered)
recv(k, ch) ==
    IF k.sent[ch] = 0 THEN 0
    ELSE k.sent[ch] - (IF ch = "command" THEN k.ctrl_command ELSE k.ctrl_code) + 1

\* the handling of message id of channel ch starts
NoteHandled(k, ch, id) ==
    [k EXCEPT !.hist.order =
        [@ EXCEPT ![ch] = id,
                  !.inorder = @ /\ (id = 0 \/ id > k.hist.order[ch]),
                  !.nested = k.cont.site # "none"]]

\* a kernel that never finds the connection closed
closed_never(k) == FALSE

\* sys.stdin.closed or not self.context.connection_count
closed(k) == ~k.connected

\* a status that looks at self.more first
StatusOf_morefirst(k) ==
    IF k.more THEN "More" ELSE IF k.dbFrames THEN "Debug" ELSE "Ready"

\* the status _process_commands computes: Debug, More or Ready
StatusOf(k) ==
    IF k.dbFrames THEN "Debug" ELSE IF k.more THEN "More" ELSE "Ready"

\* a command handed to the Magician as it was received
rstrip_none(line) == line

\* line1.rstrip('\n'), for a line given as its pieces between the newlines:
\* the empty pieces at its end go, down to the first piece
rstrip(line) ==
    IF line = <<>> THEN line
    ELSE LET n == CHOOSE m \in 1..Len(line) :
                    /\ \A i \in (m + 1)..Len(line) : line[i] = ""
                    /\ (m = 1 \/ line[m] # "")
         IN  SubSeq(line, 1, n)

\* _process_commands after the startup script: prompt, status, the check
\* of the connection, and one message
TickRest(k, inp) ==
    LET k1 == IF k.newPrompt
              THEN [k EXCEPT !.newPrompt = FALSE, !.strm_prompt = PromptFor(k),
                             !.promptAfter = [res |-> k.lastCompile.res,
                                              by |-> k.lastCompile.by,
                                              exit |-> k.exitException],
                             !.hist.tick.prompted = TRUE]
              ELSE k
        k2i == [SendStatus(k1, StatusOf(k1)) EXCEPT
                    !.hist.tick.status = StatusOf(k1),
                    !.hist.tick.dbg = k1.dbFrames, !.hist.tick.more = k1.more]
        k2 == [k2i EXCEPT !.hist.tick.checked = TRUE]
        c  == inp.ch
        intr == inp.intr
    IN  IF intr = "idle" THEN [k2i EXCEPT !.exc = "KeyboardInterrupt"]
        ELSE IF closed(k2) THEN [k2 EXCEPT !.exc = "SystemExit()"]
        ELSE IF c = "command" THEN
            LET line1 == inp.line
                k3    == [k2 EXCEPT !.ctrl_command = @ - 1,
                                    !.hist.tick.taken = "command",
                                    !.hist.start.taken = TRUE]
                k4    == [NoteHandled(MarkBusy(k3), "command", recv(k2, "command"))
                            EXCEPT !.hist.tick.event = "command",
                                   !.hist.cmd = [NoHist.cmd EXCEPT
                                                    !.line = line1, !.echo = line1,
                                                    !.stat = MarkBusy(k3).stat,
                                                    !.given = rstrip(line1),
                                                    !.pending = k.buffer]]
                line2 == convert_command(k4, rstrip(line1))
            IN  IF line1 = <<>> THEN k3
                ELSE IF intr = "busy" THEN [k4 EXCEPT !.exc = "KeyboardInterrupt"]
                ELSE IF line2.consumed
                THEN LET kc == resetbuffer([k4 EXCEPT !.more = FALSE])
                     IN  [kc EXCEPT !.interacting = IF line2.stop THEN FALSE ELSE @,
                                    !.hist.cmd.consumed = TRUE, !.hist.cmd.done = TRUE,
                                    !.hist.cmd.more = kc.more,
                                    !.hist.cmd.after = kc.buffer]
                ELSE IF line2.start
                THEN [k4 EXCEPT !.cont = [site |-> "magic", rest |-> line2.text,
                                          inp |-> NoInput, code |-> NoCode, line |-> 0],
                                !.dbFrames = TRUE, !.interacting = TRUE, !.susp = TRUE]
                ELSE PushSegs([k4 EXCEPT !.interacting = IF line2.stop THEN FALSE ELSE @,
                                         !.hist.cmd.text = line2.text],
                              line2.text)
        ELSE IF c = "code" THEN
            LET msg == inp.msg
                k3  == [k2 EXCEPT !.ctrl_code = @ - 1, !.hist.tick.taken = "code",
                                  !.hist.start.taken = TRUE]
                k4  == [NoteHandled(MarkBusy(k3), "code", recv(k2, "code"))
                            EXCEPT !.hist.tick.event = "code", !.hist.cmd = NoHist.cmd]
            IN  IF msg.source = <<>> THEN k3
                ELSE IF intr = "busy" THEN [k4 EXCEPT !.exc = "KeyboardInterrupt"]
                ELSE runlargecode(k4, msg)
        ELSE k2

\* a startup step that leaves the script pending
takeScript_kept(k) ==
    [k EXCEPT !.hist.start.runs = IF @ < 2 THEN @ + 1 ELSE @]

\* self._scriptToRunOnStartup, tmp = None, self._scriptToRunOnStartup
takeScript(k) ==
    [k EXCEPT !.script = <<>>,
              !.hist.start = [@ EXCEPT !.runs = IF @ < 2 THEN @ + 1 ELSE @,
                                       !.busy = k.stat = "Busy",
                                       !.prompted = k.strm_prompt # "",
                                       !.received = k.hist.start.taken]]

\* _process_commands
inner_process_commands(k, inp) ==
    IF inp.intr = "start" THEN [k EXCEPT !.exc = "KeyboardInterrupt"]
    ELSE IF k.script # <<>>
    THEN runfile(takeScript(SendStatus(k, "Busy")), k.script, inp)
    ELSE TickRest(k, inp)

\* the tick starts
NoteTick(k) ==
    [k EXCEPT !.hist.tick = [NoHist.tick EXCEPT !.closed = ~k.connected,
                                                !.command = k.ctrl_command,
                                                !.code = k.ctrl_code,
                                                !.exitBefore = k.exitException,
                                                !.statBefore = k.stat],
              !.hist.start.ticked = TRUE]

IsSystemExit(e) == e \in {"SystemExit(7)", "SystemExit()"}

\* the except clauses of process_commands, for a _process_commands that ended
\* in state k (k.exc is what it raised).  guiApp.quit() raises SystemExit
\* again when it is the default sys.exit().
Handlers(k) ==
    IF k.susp THEN [k EXCEPT !.hist.tick.returned = FALSE]
    ELSE IF k.exc = "none" THEN [k EXCEPT !.hist.tick.returned = TRUE]
    ELSE IF k.exc = "KeyboardInterrupt"
    THEN [resetbuffer(k) EXCEPT !.more = FALSE, !.exc = "none",
                                !.hist.tick.escaped = k.exc,
                                !.hist.tick.written = "KeyboardInterrupt",
                                !.hist.tick.returned = TRUE]
    ELSE IF k.exc = "TypeError"
    THEN IF k.guiName = "WX"
         THEN [resetbuffer(k) EXCEPT !.more = FALSE, !.exc = "none",
                                     !.hist.tick.escaped = k.exc,
                                     !.hist.tick.written = "Keyboard Interrupt",
                                     !.hist.tick.returned = TRUE]
         ELSE [k EXCEPT !.exc = "none", !.hist.tick.escaped = k.exc,
                        !.hist.tick.returned = TRUE]
    ELSE IF ~IsSystemExit(k.exc) THEN k
    ELSE    [k EXCEPT !.exitException = k.exc,
                      !.hist.tick.stored = k.exc, !.hist.tick.quit = TRUE,
                      !.hist.tick.escaped = k.exc,
                      !.hist.tick.returned = ~k.quitRaises,
                      !.firstExit = IF @ = "None" THEN k.exc ELSE @,
                      !.interacting = FALSE,
                      !.quitCalled = IF k.quitRaises THEN @ ELSE TRUE,
                      !.exc = IF k.quitRaises THEN "SystemExit()" ELSE "none"]

\* process_commands
process_commands(k, inp) == Handlers(inner_process_commands(NoteTick(k), inp))

\* run(): what it does with a process_commands that returned to, or raised
\* in, guiApp.run
run(k) ==
    IF k.exc = "none" THEN k
    ELSE IF ~IsSystemExit(k.exc)
    THEN [k EXCEPT !.runState = "raised", !.raised = k.exc, !.exc = "none"]
    ELSE LET e == IF k.exitException = "None" THEN k.exc ELSE k.exitException
         IN  [k EXCEPT !.exitException = e, !.runState = "raised", !.raised = e,
                       !.exc = "none"]

\* The debugger's interaction loop, after the process_commands it called ended
\* in state k: an exception unwinds through the suspended tick into the
\* process_commands that encloses it; when the interaction was stopped the
\* suspended tick goes on (inp is what the rest of a startup tick meets);
\* otherwise the loop sleeps until its next call.
interaction(k, inp) ==
    LET c   == [k.cont EXCEPT !.inp = inp]
        out == [k EXCEPT !.cont = NoCont]
        on  == [out EXCEPT !.dbFrames = FALSE, !.hist.cmd.whole = FALSE]
    IN  IF k.exc # "none" THEN Handlers(out)
        ELSE IF k.interacting THEN k
        ELSE IF c.site = "magic" THEN Handlers(AfterExec(on, c))
        ELSE Handlers(RunFrom(on, c.code, c.line + 1, c))

\* the suspended tick is a startup tick that goes on after this call
Resumes(k) == k.cont.site = "file" /\ k.exc = "none" /\ ~k.interacting

\* what follows a call of process_commands by the loop that is running
\* (caller: the site of the suspended tick when it is the interaction loop,
\* "none" when it is guiApp.run), until a loop waits again; k is the state
\* process_commands ended in
Step(caller, k, inp) ==
    LET r == IF caller = "none" THEN k ELSE interaction(k, inp)
    IN  [(IF r.susp THEN r ELSE run(r)) EXCEPT !.susp = FALSE]

\* ------------------------------------------------------------- the inputs
\* commands of the front-end: the lines of one message on ctrl_command
\* (<<>> is the empty message, <<"">> a blank line)
Commands ==
    {<<"x=1">>, <<"def f():">>, <<"    return 42">>, <<"">>,
     <<"x=)">>, <<"?">>, <<"x=1", "def f():">>, <<"x=1", "x=1">>,
     <<"raise SystemExit(7)">>, <<"g()">>, <<"db start">>,
     <<"db continue">>, <<>>}

\* blocks of the front-end on ctrl_code (an empty source is the empty message)
CodeMsgs ==
    {Block(src, ExPy, 10) :
        src \in {<<"x=1">>, <<"raise SystemExit(7)">>, <<"g()">>, <<"if x:">>,
                 <<"x=)">>, <<>>}}

\* startup scripts (<<>>: none is pending)
Scripts == {<<>>, <<"g()">>}

\* the origin-tag specification: the editor's file name, the offset of the
\* slice and a line of it; the tag runlargecode builds; the pair
\* correctfilenameandlineno decodes
\* the front-end has published one breakpoint, in g
GBreak == [null |-> FALSE, set |-> {"g"}]

\* the encoding-cookie specification: a source, what compilecode hands to the
\* compiler, and whether it did
NoCoding == [source |-> <<>>, out |-> <<>>, stage |-> "none"]

NoTag ==
    [fname |-> <<>>, offset |-> 0, line |-> 0, built |-> <<>>, stage |-> "none",
     out |-> [fname |-> <<>>, lineno |-> 0]]

\* characters of a file name: a letter, the '+' and a digit
NameChars == {"e", "+", "1"}

Names == UNION {[1..n -> NameChars] : n \in 1..MaxName}

\* commands and blocks of the traceback specification
TbCommands == {<<"h()">>, <<"1/0">>, <<"x=)">>}

\* the files and offsets blocks are sent from
TbOrigins ==
    {[fname |-> ExPy, lineno |-> 0], [fname |-> ExPy, lineno |-> 10],
     [fname |-> <<"e", "+", "f">>, lineno |-> 10]}

TbMsgs ==
    {Block(src, o.fname, o.lineno) :
        src \in {<<"a=1", "b=1/0">>, <<"def h(): 1/0">>, <<"h()">>, <<"x=)">>},
        o \in TbOrigins}

\* ------------------------------------------------------------ specification
\* the state run() enters the event loop with
InitKernel ==
    /\ buffer = <<>> /\ more = FALSE /\ newPrompt = TRUE
    /\ dbFrames = FALSE /\ exitException = "None"
    /\ locals = NoFunction /\ coll = <<>> /\ nextId = 0
    /\ interacting = FALSE /\ cont = NoCont
    /\ quitCalled = FALSE /\ runState = "running" /\ raised = "None"
    /\ connected = TRUE /\ ctrl_command = 0 /\ ctrl_code = 0
    /\ strm_prompt = "" /\ stat = "" /\ lastTb = NoReport /\ blocks = <<>>
    /\ lastCompile = [res |-> "none", by |-> "none", push |-> "none"]
    /\ promptAfter = [res |-> "none", by |-> "none", exit |-> "None"]
    /\ execSinceStatus = 0 /\ execStat = "" /\ firstExit = "None"
    /\ breaks = {} /\ execution_count = 1
    /\ sys_last = NoLast /\ sent = [command |-> 0, code |-> 0] /\ hist = NoHist
    /\ beat = FALSE

Init ==
    /\ InitKernel
    /\ script \in Scripts
    /\ quitRaises \in BOOLEAN
    /\ tag = NoTag
    /\ stat_breakpoints = GBreak /\ ipython = FALSE /\ coding = NoCoding
    /\ python = 2 /\ guiName = ""

\* the front-end sends a command
SendCommand ==
    /\ runState = "running"
    /\ ctrl_command < MaxQueue
    /\ execution_count <= MaxCount
    /\ ctrl_command' = ctrl_command + 1
    /\ UNCHANGED <<buffer, more, newPrompt, script, dbFrames, exitException, locals,
                   coll, nextId, interacting, cont, quitRaises, quitCalled, runState,
                   raised, connected, ctrl_code, strm_prompt, stat, lastTb,
                   blocks, lastCompile, promptAfter, execSinceStatus, execStat, firstExit, tag,
                   extVars, coding>>

\* the front-end sends a block
SendCode ==
    /\ runState = "running"
    /\ ctrl_code < MaxQueue
    /\ execution_count <= MaxCount
    /\ nextId + ctrl_code < MaxBlocks
    /\ ctrl_code' = ctrl_code + 1
    /\ UNCHANGED <<buffer, more, newPrompt, script, dbFrames, exitException, locals,
                   coll, nextId, interacting, cont, quitRaises, quitCalled, runState,
                   raised, connected, ctrl_command, strm_prompt, stat, lastTb,
                   blocks, lastCompile, promptAfter, execSinceStatus, execStat, firstExit, tag,
                   extVars, coding>>

\* stdin is closed or the last peer leaves
Disconnect ==
    /\ runState = "running"
    /\ connected
    /\ connected' = FALSE
    /\ UNCHANGED <<buffer, more, newPrompt, script, dbFrames, exitException, locals,
                   coll, nextId, interacting, cont, quitRaises, quitCalled, runState,
                   raised, ctrl_command, ctrl_code, strm_prompt, stat, lastTb,
                   blocks, lastCompile, promptAfter, execSinceStatus, execStat, firstExit, tag,
                   extVars, coding>>

\* the inputs a tick can meet in state k, its messages taken from lines and
\* msgs; the front-end sends no line that lets the buffer grow past MaxBuf
Inputs(k, lines, msgs) ==
    LET chs == select_sub_channel(k)
    IN  {Input("none", intr, <<>>, NoMsg) : intr \in {"none", "start", "idle"}}
        \cup (IF "command" \in chs
              THEN {Input("command", intr, line, NoMsg) :
                        intr \in {"none", "busy"},
                        line \in {l \in lines : Len(k.buffer) + Len(l) <= MaxBuf}}
              ELSE {})
        \cup (IF "code" \in chs
              THEN {Input("code", intr, <<>>, msg) : intr \in {"none", "busy"}, msg \in msgs}
              ELSE {})

\* what the running loop does after its call of process_commands ended in
\* state r, until a loop waits again
TickEnds(r, lines, msgs, keep) ==
    \E inp2 \in IF Resumes(r) THEN Inputs(r, lines, msgs) ELSE {NoInput} :
        Become([Step(cont.site, r, inp2) EXCEPT
                    !.lastTb = IF "tb" \in keep THEN @ ELSE NoReport,
                    !.sys_last = IF "last" \in keep THEN @ ELSE NoLast,
                    !.hist = [f \in DOMAIN NoHist |->
                                IF f \in keep THEN @[f] ELSE NoHist[f]],
                    !.blocks = IF "tb" \in keep THEN @ ELSE <<>>])

\* the running loop calls process_commands; keep: what is recorded of the
\* error reports and the blocks ("tb"), of sys.last_* ("last") and of the
\* histories (the names of their fields)
TickCore(lines, msgs, keep) ==
    /\ runState = "running"
    /\ \E inp \in Inputs(K, lines, msgs) :
            TickEnds(process_commands(K, inp), lines, msgs, keep)
    /\ UNCHANGED <<tag, coding>>

TickFrom(lines, msgs, keep) == TickCore(lines, msgs, keep) /\ UNCHANGED beat

Tick == TickFrom(Commands, CodeMsgs, {})

\* guiApp.run returns after quit() was called: run() raises the stored
\* exception (a fresh SystemExit when there is none)
GuiLoopReturns ==
    /\ runState = "running"
    /\ quitCalled
    /\ cont.site = "none"
    /\ runState' = "raised"
    /\ raised' = IF exitException = "None" THEN "SystemExit()" ELSE exitException
    /\ exitException' = raised'
    /\ UNCHANGED <<buffer, more, newPrompt, script, dbFrames, locals, coll, nextId,
                   interacting, cont, quitRaises, quitCalled, connected, ctrl_command,
                   ctrl_code, strm_prompt, stat, lastTb, blocks, lastCompile, promptAfter,
                   execSinceStatus, execStat, firstExit, tag, extVars, coding>>

Next == SendCommand \/ SendCode \/ Disconnect \/ Tick \/ GuiLoopReturns

Spec == Init /\ [][Next]_vars

\* ---- the origin-tag specification: runlargecode's tag and its reader
InitTag ==
    /\ InitKernel
    /\ script = <<>>
    /\ quitRaises = TRUE
    /\ stat_breakpoints = GBreak /\ ipython = FALSE /\ coding = NoCoding
    /\ python = 2 /\ guiName = ""
    /\ tag \in {[NoTag EXCEPT !.fname = f, !.offset = n, !.line = l, !.stage = "in"] :
                    f \in Names, n \in 0..MaxOffset, l \in 1..MaxLine}

\* runlargecode puts the line number in the file name
BuildTag ==
    /\ tag.stage = "in"
    /\ tag' = [tag EXCEPT !.built = OriginTag(tag.fname, tag.offset), !.stage = "built"]
    /\ UNCHANGED <<kernelVars, coding>>

\* showtraceback or showsyntaxerror reads the tag for a line of the slice
DecodeTag ==
    /\ tag.stage = "built"
    /\ tag' = [tag EXCEPT !.out = correctfilenameandlineno(tag.built, tag.line),
                          !.stage = "decoded"]
    /\ UNCHANGED <<kernelVars, coding>>

NextTag == BuildTag \/ DecodeTag

SpecTag == InitTag /\ [][NextTag]_vars

\* ---- the traceback specification: a connected kernel without startup
\* script; blocks come from several files and offsets, error reports are kept
InitTb ==
    /\ InitKernel
    /\ script = <<>>
    /\ quitRaises = TRUE
    /\ tag = NoTag
    /\ stat_breakpoints = GBreak /\ ipython = FALSE /\ coding = NoCoding
    /\ python = 2 /\ guiName = ""

TickTb == TickFrom(TbCommands, TbMsgs, {"tb"})

NextTb == SendCommand \/ SendCode \/ TickTb

SpecTb == InitTb /\ [][NextTb]_vars

\* ---- the encoding-cookie specification: compilecode is handed a source
InitCookie ==
    /\ InitKernel
    /\ script = <<>>
    /\ quitRaises = TRUE
    /\ tag = NoTag
    /\ stat_breakpoints = GBreak /\ ipython = FALSE /\ python = 2 /\ guiName = ""
    /\ coding \in {[NoCoding EXCEPT !.source = src, !.stage = "in"] : src \in CookieSources}

\* compilecode mangles the coding definitions of the source
MangleSource ==
    /\ coding.stage = "in"
    /\ coding' = [coding EXCEPT !.out = manglecoding(coding.source), !.stage = "done"]
    /\ UNCHANGED <<kernelVars, tag>>

NextCookie == MangleSource

SpecCookie == InitCookie /\ [][NextCookie]_vars

\* ---- the submission specification: interactive lines and blocks, with or
\* without an extension shell, in and outside debug mode
SubCommands ==
    {<<"x=1">>, <<"x=)">>, <<"def f():">>, <<"    return 42">>, <<"">>,
     <<"db start">>, <<"db continue">>}

SubMsgs == {Block(src, ExPy, 10) : src \in {<<"x=1">>, <<"x=)">>, <<"if x:">>}}

InitSub ==
    /\ InitKernel
    /\ script = <<>>
    /\ quitRaises = TRUE
    /\ tag = NoTag
    /\ stat_breakpoints = GBreak /\ ipython \in BOOLEAN /\ coding = NoCoding
    /\ python = 2 /\ guiName = ""

TickSub == TickFrom(SubCommands, SubMsgs, {"sub", "push"})

NextSub == SendCommand \/ SendCode \/ TickSub

SpecSub == InitSub /\ [][NextSub]_vars

\* ---- the block specification: blocks arrive while the buffer may hold
\* fragments of interactive input
BlockCommands == {<<"x=1">>, <<"def f():">>, <<"    return 42">>}

InitBlock ==
    /\ InitKernel
    /\ script = <<>>
    /\ quitRaises = TRUE
    /\ tag = NoTag
    /\ stat_breakpoints = GBreak /\ ipython = FALSE /\ coding = NoCoding
    /\ python = 2 /\ guiName = ""

TickBlock == TickFrom(BlockCommands, SubMsgs, {"sub", "block"})

NextBlock == SendCommand \/ SendCode \/ TickBlock

SpecBlock == InitBlock /\ [][NextBlock]_vars

\* ---- the teardown specification: the connection can close at any time,
\* also while the kernel is in the debugger or has its startup script pending
DownCommands == {<<"x=1">>, <<"g()">>, <<"db continue">>}

DownMsgs == {Block(<<"x=1">>, ExPy, 10)}

InitDown ==
    /\ InitKernel
    /\ script \in Scripts
    /\ quitRaises \in BOOLEAN
    /\ tag = NoTag
    /\ stat_breakpoints = GBreak /\ ipython = FALSE /\ coding = NoCoding
    /\ python = 2 /\ guiName = ""

TickDown == TickFrom(DownCommands, DownMsgs, {"tick"})

NextDown == SendCommand \/ SendCode \/ Disconnect \/ TickDown \/ GuiLoopReturns

SpecDown == InitDown /\ [][NextDown]_vars

\* ---- the ordering specification: the messages of each channel are
\* numbered in the order of sending, and several can wait
OrderCommands == {<<"x=1">>, <<"g()">>, <<"db continue">>, <<>>}

OrderMsgs == {Block(src, ExPy, 10) : src \in {<<"x=1">>, <<"g()">>}}

InitOrder ==
    /\ InitKernel
    /\ script = <<>>
    /\ quitRaises = TRUE
    /\ tag = NoTag
    /\ stat_breakpoints = GBreak /\ ipython = FALSE /\ coding = NoCoding
    /\ python = 2 /\ guiName = ""

\* the front-end sends a numbered message on ch
Post(ch) ==
    /\ runState = "running"
    /\ sent[ch] < MaxSent
    /\ sent' = [sent EXCEPT ![ch] = @ + 1]
    /\ IF ch = "command"
       THEN ctrl_command < MaxPending /\ ctrl_command' = ctrl_command + 1
            /\ UNCHANGED ctrl_code
       ELSE ctrl_code < MaxPending /\ ctrl_code' = ctrl_code + 1
            /\ UNCHANGED ctrl_command
    /\ UNCHANGED <<buffer, more, newPrompt, script, dbFrames, exitException, locals,
                   coll, nextId, interacting, cont, quitRaises, quitCalled, runState,
                   raised, connected, strm_prompt, stat, lastTb, blocks, lastCompile,
                   promptAfter, execSinceStatus, execStat, firstExit, tag,
                   stat_breakpoints, breaks, sys_last, ipython, execution_count, hist,
                   python, guiName, beat, coding>>

PostCommand == Post("command")

PostCode == Post("code")

TickOrder == TickFrom(OrderCommands, OrderMsgs, {"order"})

NextOrder == PostCommand \/ PostCode \/ TickOrder

SpecOrder == InitOrder /\ [][NextOrder]_vars

\* ---- the breakpoint specification: the front-end publishes breakpoints
\* between the ticks; the kernel runs with or without an extension shell
BpCommands == {<<"x=1">>, <<"g()">>, <<"db continue">>}

BpMsgs == {Block(src, ExPy, 10) : src \in {<<"x=1">>, <<"g()">>}}

\* the states of the breakpoint channel: None, or a set of breakpoints
BpStates ==
    {[null |-> TRUE, set |-> {}]} \cup {[null |-> FALSE, set |-> S] : S \in SUBSET {"g", "h"}}

InitBp ==
    /\ InitKernel
    /\ script = <<>>
    /\ quitRaises = TRUE
    /\ tag = NoTag
    /\ stat_breakpoints = GBreak /\ ipython \in BOOLEAN /\ coding = NoCoding
    /\ python = 2 /\ guiName = ""

\* the front-end publishes its breakpoints on stat_breakpoints
UpdateBreakpoints ==
    /\ runState = "running"
    /\ \E b \in BpStates \ {stat_breakpoints} : stat_breakpoints' = b
    /\ UNCHANGED <<buffer, more, newPrompt, script, dbFrames, exitException, locals,
                   coll, nextId, interacting, cont, quitRaises, quitCalled, runState,
                   raised, connected, ctrl_command, ctrl_code, strm_prompt, stat, lastTb,
                   blocks, lastCompile, promptAfter, execSinceStatus, execStat, firstExit,
                   tag, breaks, sys_last, ipython, execution_count, sent, hist, python,
                   guiName, beat, coding>>

TickBp == TickFrom(BpCommands, BpMsgs, {"execBreaks"})

NextBp == SendCommand \/ SendCode \/ UpdateBreakpoints \/ TickBp

SpecBp == InitBp /\ [][NextBp]_vars

\* ---- the error specification: user code that raises, under Python 2 or 3;
\* error reports and histories are kept
ErrCommands ==
    {<<"x=1">>, <<"1/0">>, <<"x=)">>, <<"raise GeneratorExit">>,
     <<"raise KeyboardInterrupt">>, <<"raise bdb.BdbQuit">>,
     <<"raise SystemExit(7)">>, <<"g()">>, <<"db continue">>}

ErrMsgs == {Block(<<"x=)">>, ExPy, 10)}

InitErr ==
    /\ InitKernel
    /\ script = <<>>
    /\ quitRaises = FALSE
    /\ tag = NoTag
    /\ stat_breakpoints = GBreak /\ ipython = FALSE /\ coding = NoCoding
    /\ python \in {2, 3} /\ guiName = ""

TickErr == TickFrom(ErrCommands, ErrMsgs, {"tb", "last", "report", "exec"})

NextErr == SendCommand \/ SendCode \/ Disconnect \/ TickErr \/ GuiLoopReturns

SpecErr == InitErr /\ [][NextErr]_vars

\* ---- the command specification: commands of one or more segments, with
\* and without a newline at their end, magic commands and blocks, one of them
\* with a lineno that is no number; the GUI toolkit is wx or Qt
CmdCommands ==
    {<<"x=1">>, <<"if x:">>, <<"    g()">>, <<"">>, <<"x=)">>, <<"?">>,
     <<"x=1", "if x:">>, <<"x=1", "">>, <<"db continue">>, <<>>}

CmdMsgs == {Block(<<"x=1">>, ExPy, 10), Block(<<"x=1">>, ExPy, NoLineno)}

InitCmd ==
    /\ InitKernel
    /\ script = <<>>
    /\ quitRaises = TRUE
    /\ tag = NoTag
    /\ stat_breakpoints = GBreak /\ ipython = FALSE /\ coding = NoCoding
    /\ python = 2 /\ guiName \in {"WX", "QT4"}

TickCmd == TickFrom(CmdCommands, CmdMsgs, {"cmd"})

NextCmd == SendCommand \/ SendCode \/ TickCmd

SpecCmd == InitCmd /\ [][NextCmd]_vars

\* ---- the loop specification: the same kernel, with the history of the
\* ticks kept
TickLoop == TickFrom(CmdCommands, CmdMsgs, {"tick"})

NextLoop == SendCommand \/ SendCode \/ TickLoop

SpecLoop == InitCmd /\ [][NextLoop]_vars

\* ---- the exit specification: a startup script that may raise, user code
\* that raises SystemExit, a connection that can close, a guiApp.quit() that
\* raises or returns; the history of the ticks and of the startup step is kept
ExitScripts ==
    {<<>>, <<"x=1">>, <<"g()">>, <<"1/0">>, <<"raise KeyboardInterrupt">>,
     <<"raise SystemExit(7)">>}

ExitCommands == {<<"x=1">>, <<"raise SystemExit(7)">>, <<"g()">>, <<"db continue">>}

InitExit ==
    /\ InitKernel
    /\ script \in ExitScripts
    /\ quitRaises \in BOOLEAN
    /\ tag = NoTag
    /\ stat_breakpoints = GBreak /\ ipython = FALSE /\ coding = NoCoding
    /\ python = 2 /\ guiName = ""

TickExit == TickFrom(ExitCommands, DownMsgs, {"tick", "start"})

NextExit == SendCommand \/ SendCode \/ Disconnect \/ TickExit \/ GuiLoopReturns

SpecExit == InitExit /\ [][NextExit]_vars

\* ---- the shutdown specification, with fairness: a unit may stop at two
\* breakpoints; as long as run() is running the loop in charge keeps calling
\* process_commands, and not every call is cut short by a KeyboardInterrupt;
\* a GUI loop that was told to quit returns when control is back with it
\* ---- the liveness specification: guiApp.run keeps calling
\* process_commands while it runs, a KeyboardInterrupt does not cut every
\* call short, and the event loop returns once quit() was called and no
\* call is suspended
TickLive ==
    /\ TickCore(ExitCommands, DownMsgs, {"tick"})
    /\ beat' = IF hist'.tick.escaped = "KeyboardInterrupt" THEN beat ELSE ~beat

CallbackCompletes == runState = "running" /\ beat' = ~beat

NextLive == SendCommand \/ Disconnect \/ TickLive \/ GuiLoopReturns

LiveExit ==
    /\ InitDown /\ [][NextLive]_vars
    /\ WF_beat(CallbackCompletes) /\ SF_vars(GuiLoopReturns)

\* ------------------------------------------------------------------ claims
PS1s == {">>> ", "(f)>>> "}

PS2s == {"... ", "(f)... "}

\* C1 as stated (P2): the buffer is empty if and only if the most recent
\* compile returned complete or invalid.
C1_BufferDiscipline ==
    lastCompile.res # "none" =>
        ((buffer = <<>>) <=> (lastCompile.res \in {"complete", "invalid"}))

\* C1 as amended: the buffer is non-empty only when the most recent compile
\* by pushline returned incomplete (so it is empty whenever the last pushline
\* compile was complete or invalid); it can be empty after an incomplete
\* compile too.
C1_NonEmptyOnlyAfterIncomplete == buffer # <<>> => lastCompile.push = "incomplete"

\* C1 witness: two lines of a compound statement are held after pushline
\* compiled them incomplete.
C1_Witness ==
    /\ buffer = <<"def f():", "    return 42">>
    /\ lastCompile = [res |-> "incomplete", by |-> "pushline", push |-> "incomplete"]

C4_FirstExitKept == exitException # "None" => exitException = firstExit

\* C5 as stated: when the first exit observed is the SystemExit(7) of user
\* code, run() raises a SystemExit that carries 7.
C5_RunRaisesExitIntent ==
    (runState = "raised" /\ firstExit = "SystemExit(7)") => raised = "SystemExit(7)"

\* C6 as stated: the tag built for file name F and offset N is decoded, for
\* line L, to (F, L + N); with N = 0 that is (F, L), the tag unchanged.
C6_TagRoundTrip ==
    tag.stage = "decoded" =>
        tag.out = [fname |-> tag.fname, lineno |-> tag.line + tag.offset]

\* the block a frame of a traceback belongs to (0: none, the console)
BlockOf(frame) == frame.code.id

\* C7 as stated (P3): every frame of a traceback that belongs to a block
\* submitted with (fname, lineno) is reported with file name fname and a line
\* of at least lineno + 1.
C7_OriginRoundTrip ==
    \A i \in 1..Len(lastTb.tb) :
        BlockOf(lastTb.tb[i]) >= 1 =>
            /\ lastTb.list[i].fname = blocks[BlockOf(lastTb.tb[i])].fname
            /\ lastTb.list[i].lineno >= blocks[BlockOf(lastTb.tb[i])].lineno + 1

\* scenario 3: the block and the traceback of its failing second line
Scenario3 == Block(<<"a=1", "b=1/0">>, ExPy, 10)

Scenario3Reported ==
    /\ Len(lastTb.tb) = 1
    /\ BlockOf(lastTb.tb[1]) >= 1
    /\ blocks[BlockOf(lastTb.tb[1])] = Scenario3

\* C8 as stated: the traceback of scenario 3 names ex.py at line 11.
C8_NamesLine11 ==
    Scenario3Reported => (lastTb.list[1].fname = ExPy /\ lastTb.list[1].lineno = 11)

\* C8 as amended: the traceback of scenario 3 names ex.py at line 12, the
\* second line of a slice that starts after line 10.
C8_NamesLine12 ==
    Scenario3Reported => (lastTb.list[1].fname = ExPy /\ lastTb.list[1].lineno = 12)

\* C8 witness: scenario 3 was run and its traceback written.
C8_Witness ==
    /\ Scenario3Reported
    /\ lastTb.list[1].fname = ExPy
    /\ lastTb.list[1].lineno = 12

\* the code object compiled for the i-th stored block
CodeOfBlock(i) ==
    [id |-> i, def |-> 0, co_filename |-> OriginTag(blocks[i].fname, blocks[i].lineno)]

\* C9 as stated: every stored block's source is what getSource returns for
\* its code object, and getSource of the code of an interactive line, which
\* was never stored, is empty.
C9_RegistryKeepsEntries ==
    /\ \A i \in 1..Len(blocks) : getSource(coll, CodeOfBlock(i)) = blocks[i].source
    /\ getSource(coll, [id |-> 0, def |-> 0, co_filename |-> ConsoleName]) = <<>>

\* C10 as stated: the text shown for a frame whose code object is that of a
\* stored block is line (frame line - 1) of the block's stored source (the
\* original text when out of range); every other frame keeps its text.
C10_SourceFidelity ==
    \A i \in 1..Len(lastTb.tb) :
        LET f   == lastTb.tb[i]
            src == blocks[BlockOf(f)].source
        IN  IF BlockOf(f) >= 1 /\ f.code.def = 0
            THEN lastTb.list[i].text =
                    (IF f.lineno <= Len(src) THEN src[f.lineno] ELSE f.text)
            ELSE lastTb.list[i].text = f.text

\* C11 (P7): when a unit starts executing, on the normal path, in debug mode
\* or through the extension shell, the breakpoints installed in the debugger
\* are exactly the set the breakpoint channel holds (none for None), whatever
\* was installed before.
C11_BreakpointResync ==
    hist.execBreaks.path # "none" =>
        hist.execBreaks.breaks =
            (IF hist.execBreaks.chan.null THEN {} ELSE hist.execBreaks.chan.set)

\* a unit starts in debug mode after the front-end replaced the breakpoint in
\* g, which was installed, by one in h
C11_Witness ==
    /\ hist.execBreaks.path = "debug"
    /\ hist.execBreaks.before = {"g"}
    /\ hist.execBreaks.breaks = {"h"}

\* C12 (REPL survival): only SystemExit ends the loop: when run() has raised,
\* what it raised is a SystemExit; every other failure of a tick was
\* recovered inside process_commands.
C12_OnlySystemExitEndsLoop == runState = "raised" => IsSystemExit(raised)

\* C13: in debug mode no error report, by showtraceback or by
\* showsyntaxerror, changes sys.last_type, sys.last_value or
\* sys.last_traceback; outside debug mode showtraceback stores the triple of
\* the exception it formats.
C13_NoCachingInDebugMode ==
    /\ hist.report.debug => hist.report.after = hist.report.before
    /\ (hist.report.by = "showtraceback" /\ ~hist.report.debug) =>
            /\ hist.report.after.type \in {"ZeroDivisionError", "KeyboardInterrupt"}
            /\ hist.report.after.value = hist.report.after.type
            /\ hist.report.after.traceback = lastTb.tb

\* C19: what leaves the executed unit takes exactly one route: bdb.BdbQuit
\* runs the stop handler, formats nothing and leaves sys.last_* alone; an
\* Exception or KeyboardInterrupt is formatted by showtraceback and execcode
\* returns; SystemExit is not formatted, not stored, and leaves execcode.
C19_ExceptionDispatch ==
    /\ hist.exec.eff = "bdbquit" =>
            /\ hist.exec.stopped /\ ~hist.exec.shown /\ hist.exec.raised = "none"
            /\ hist.exec.after = hist.exec.before
    /\ hist.exec.eff \in {"exc", "kbd"} =>
            hist.exec.shown /\ ~hist.exec.stopped /\ hist.exec.raised = "none"
    /\ hist.exec.eff = "exit" =>
            /\ ~hist.exec.shown /\ ~hist.exec.stopped
            /\ hist.exec.raised = "SystemExit(7)"
            /\ hist.exec.after = hist.exec.before

\* a unit raised SystemExit(7) after an earlier exception was stored, and
\* run() raised it
C19_Witness ==
    /\ hist.exec.eff = "exit"
    /\ hist.exec.before.type = "ZeroDivisionError"
    /\ raised = "SystemExit(7)"

\* a comment line: its first piece that is no blank is a '#'
IsComment(line) ==
    \E j \in 1..Len(line) : line[j] = "#" /\ \A m \in 1..(j - 1) : line[m] = " "

\* C14 (P6): the text handed to the compiler has every 'coding:' and
\* 'coding=' of a comment in the first two physical lines rewritten to
\* 'coding is', whether or not a newline follows the line and whether or not
\* the comment starts in column 0; the lines from the third on are unchanged.
C14_CookieNeutralized ==
    coding.stage = "done" =>
        /\ Len(coding.out) = Len(coding.source)
        /\ \A i \in 1..Len(coding.source) :
                coding.out[i] = IF i <= 2 /\ IsComment(coding.source[i])
                                THEN ReplaceCoding(coding.source[i])
                                ELSE coding.source[i]

\* C15: with an extension shell the execution counter goes up by one on
\* every submission that compiles complete, an interactive line or a block,
\* in normal and in debug mode, and on no other submission.  Stated for the
\* submissions the kernel counts or runs itself: the blocks, and the
\* interactive lines of debug mode (the shell counts the lines it is handed).
C15_CountsCompleteSubmissions ==
    (ipython /\ (hist.sub.by = "runlargecode" \/ hist.sub.debug)) =>
        execution_count =
            hist.sub.before + (IF hist.sub.res = "complete" THEN 1 ELSE 0)

\* C17: when pushline(line) returns after an incomplete compile the buffer is
\* the buffer before the call with line appended; after a complete or invalid
\* compile it is empty; the source compiled is the fragments and the line,
\* in order.
C17_BufferGrowth ==
    hist.push.done =>
        /\ hist.push.source = Append(hist.push.before, hist.push.line)
        /\ hist.push.res = "incomplete" =>
                hist.push.after = Append(hist.push.before, hist.push.line)
        /\ hist.push.res \in {"complete", "invalid"} => hist.push.after = <<>>

\* "def f():", "    return 42" and "" were pushed in turn: the third call
\* found two fragments and left none
C17_Witness ==
    /\ hist.push.done
    /\ hist.push.before = <<"def f():", "    return 42">>
    /\ hist.push.line = ""
    /\ hist.push.res = "complete"
    /\ hist.push.after = <<>> /\ buffer = <<>>

\* C20: for every block runlargecode does exactly one of: invalid, the
\* syntax error is reported, nothing is stored and nothing executed;
\* incomplete, nothing is stored and nothing executed; complete, the source
\* is stored and the unit executed.  When the block path returns the buffer
\* is empty and more is false.
C20_BlockOutcomes ==
    /\ hist.block.res = "invalid" => ~hist.block.stored /\ ~hist.block.executed
    /\ hist.block.res = "incomplete" => ~hist.block.stored /\ ~hist.block.executed
    /\ hist.block.res = "complete" => hist.block.stored /\ hist.block.executed
    /\ hist.block.done =>
            /\ hist.block.res = "invalid" => hist.block.reported
            /\ hist.block.res = "incomplete" => ~hist.block.reported
    /\ (hist.block.done /\ hist.sub.by = "runlargecode") => buffer = <<>> /\ ~more

\* an invalid block arrived while the buffer held the fragment "def f():":
\* the fragment is gone
C20_Witness ==
    /\ hist.block.done /\ hist.sub.by = "runlargecode"
    /\ hist.block.res = "invalid"
    /\ hist.block.pending = <<"def f():">>
    /\ buffer = <<>> /\ ~more

\* C18 as stated: on any tick at which the connection is closed,
\* process_commands stores a SystemExit as the exit, the debugger leaves its
\* interaction and the GUI host is told to quit, and no message is received.
C18_TeardownOnAnyTick ==
    hist.tick.closed =>
        /\ IsSystemExit(hist.tick.stored) /\ hist.tick.quit
        /\ ~interacting
        /\ ctrl_command >= hist.tick.command /\ ctrl_code >= hist.tick.code

\* C18 as amended: the same, on any tick that comes to the check of the
\* connection (no KeyboardInterrupt ends the tick before it).
C18_TeardownAtCheck ==
    (hist.tick.closed /\ hist.tick.checked) =>
        /\ hist.tick.stored = "SystemExit()" /\ exitException = "SystemExit()"
        /\ hist.tick.quit
        /\ ~interacting
        /\ ctrl_command >= hist.tick.command /\ ctrl_code >= hist.tick.code

\* the connection closed while the kernel was in the debugger with a message
\* waiting on each channel: the tick of the interaction loop took none
C18_Witness ==
    /\ hist.tick.closed /\ hist.tick.checked
    /\ hist.tick.command = 1 /\ hist.tick.code = 1
    /\ ctrl_command = 1 /\ ctrl_code = 1
    /\ dbFrames /\ ~interacting
    /\ exitException = "SystemExit()"

C21_CommandRouting ==
    LET c == hist.cmd
    IN  (c.line # <<>> /\ c.done /\ c.whole) =>
            /\ c.echo = c.line
            /\ c.stat = "Busy"
            /\ Len(c.given) <= Len(c.line)
            /\ c.given = SubSeq(c.line, 1, Len(c.given))
            /\ \A i \in (Len(c.given) + 1)..Len(c.line) : c.line[i] = ""
            /\ (Len(c.given) = 1 \/ c.given[Len(c.given)] # "")
            /\ IF c.consumed
               THEN c.pushed = <<>> /\ c.execs = 0 /\ c.after = <<>> /\ ~c.more
               ELSE /\ c.pushed = c.text
                    /\ c.more = (c.last = "incomplete")
                    /\ (c.more <=> c.after # <<>>)

\* a magic command was consumed while a compound statement was in progress
C21_Witness ==
    /\ hist.cmd.done /\ hist.cmd.whole
    /\ hist.cmd.consumed /\ hist.cmd.pending # <<>>
    /\ buffer = <<>> /\ ~more

\* C24: the status a tick computes is Debug when the frame stack is non-empty
\* (whatever self.more is), else More when self.more, else Ready; and no two
\* consecutive values sent on stat_interpreter are the same.
C24_StatusPerTick ==
    LET t   == hist.tick
        log == <<t.statBefore>> \o t.emits
    IN  /\ t.status # "" =>
                t.status = (IF t.dbg THEN "Debug" ELSE IF t.more THEN "More" ELSE "Ready")
        /\ \A i \in 1..(Len(log) - 1) : log[i] # log[i + 1]
        /\ stat = log[Len(log)]

\* a tick in debug mode found self.more set, computed Debug and sent it
C24_Witness ==
    /\ hist.tick.dbg /\ hist.tick.more /\ hist.tick.status = "Debug"
    /\ hist.tick.statBefore = "Busy" /\ hist.tick.emits = <<"Debug">>

\* C25: a KeyboardInterrupt that escapes a tick is reported by writing
\* KeyboardInterrupt, the buffer is cleared, self.more is false and the loop
\* goes on; a TypeError that escapes a tick is treated the same way under the
\* wx toolkit only, and under any other toolkit it is not swallowed silently
\* (it is reported or it ends the loop).
C25_LoopInterrupts ==
    LET t == hist.tick
        recovered == /\ t.written # "" /\ buffer = <<>> /\ ~more
                     /\ runState = "running"
    IN  /\ t.escaped = "KeyboardInterrupt" =>
                t.written = "KeyboardInterrupt" /\ recovered
        /\ (t.escaped = "TypeError" /\ guiName = "WX") => recovered
        /\ (t.escaped = "TypeError" /\ guiName # "WX") =>
                (t.written # "" \/ runState = "raised")

\* C27: whenever process_commands has returned, self.more is true exactly
\* when the buffer holds fragments.
C27_MoreIffBuffer ==
    (runState = "running" /\ hist.tick.returned) => (more <=> buffer # <<>>)

\* C28: one prompt follows each handled input event: when process_commands
\* has returned from a tick that handled a non-empty command line or a block,
\* or that reported a KeyboardInterrupt at loop level, a prompt is due (the
\* next tick sends it); when it has returned from an idle tick, none is.
C28_PromptDiscipline ==
    LET t == hist.tick
    IN  (runState = "running" /\ t.returned) =>
            /\ (t.event # "none" \/ t.written # "") => newPrompt
            /\ (t.event = "none" /\ t.escaped = "none") => ~newPrompt

\* C23: a unit is executed against the globals and locals of the selected
\* frame exactly when the frame stack is non-empty as its execution starts,
\* and against the user namespace otherwise; and in debug mode no unit is
\* handed to the extension shell.
C23_ExecutionTarget ==
    LET e == hist.execBreaks
    IN  e.path # "none" =>
            /\ e.path = "debug" <=> e.debug
            /\ e.path \in {"normal", "ipython"} <=> ~e.debug

\* with an extension shell installed, a unit was executed in debug mode by
\* the kernel's own execcode, against the frame
C23_Witness ==
    ipython /\ hist.execBreaks.debug /\ hist.execBreaks.path = "debug"

\* C22 as stated: after the first tick the startup script is no longer
\* pending; it ran once, under Busy, before any prompt was sent and before any
\* message was received.
C22_FirstTickRunsScript ==
    hist.start.ticked =>
        /\ script = <<>>
        /\ hist.start.runs <= 1
        /\ hist.start.runs = 1 =>
                (hist.start.busy /\ ~hist.start.prompted /\ ~hist.start.received)

\* C22, for the first tick that reaches the startup step: the script is
\* taken at most once; the tick that takes it has sent Busy, no prompt was
\* sent and no message received before, and the script is not pending
\* afterwards; as long as it is pending no prompt is sent and no message
\* received.
C22_StartupOnce ==
    /\ hist.start.runs <= 1
    /\ hist.start.runs = 1 =>
            /\ script = <<>>
            /\ hist.start.busy /\ ~hist.start.prompted /\ ~hist.start.received
    /\ script # <<>> =>
            (hist.start.runs = 0 /\ strm_prompt = "" /\ ~hist.start.taken)

\* the script raised SystemExit(7), guiApp.quit() returned, and a later tick
\* received a message: the script was not run again
C22_Witness ==
    /\ hist.start.runs = 1 /\ firstExit = "SystemExit(7)" /\ nextId = 1
    /\ hist.tick.exitBefore # "None" /\ hist.start.taken

\* C29: once process_commands has stored an exit, no later call of
\* process_commands receives a message from ctrl_command or ctrl_code or
\* starts a unit of user code.
C29_QuietAfterExit ==
    hist.tick.exitBefore # "None" =>
        (hist.tick.taken = "none" /\ ~hist.tick.executed)

\* C26: when a shutdown condition has occurred (the connection is closed, or
\* an exit is stored) and the loops keep calling process_commands, run()
\* eventually raises: the kernel does not stay running with an exit stored.
C26_ShutdownLiveness ==
    (exitException # "None" \/ ~connected) ~> (runState = "raised")

====
